---------------------------- MODULE Spec2Model ----------------------------
(***************************************************************************)
(* Screen-flow notation parser and FigJam renderer of ufml-for-figjam.     *)
(*                                                                         *)
(* Two variants of the plugin are modelled side by side:                   *)
(*   "code_ts"   src/src/code.ts      (requirements, conditions)           *)
(*   "part_000"  src/unnamed/part_000 (labelled transitions, sections)     *)
(*                                                                         *)
(* A JavaScript string is a sequence of one-character strings, so that     *)
(* startsWith, endsWith, slice, trim, split, includes and the regular      *)
(* expression are computed character by character.                         *)
(***************************************************************************)
EXTENDS Naturals, Sequences, FiniteSets, TLC

VARIABLES
    variant,        \* which source file is running
    pc,             \* parser: "idle" | "loop"
    text,           \* parser: argument of the current / last parse call
    lines,          \* parser: text.split('\n').map(trim)
    idx,            \* parser: 1-based position of the for-of loop over lines
    screens,        \* parser: this.screens
    currentScreen,  \* parser: this.currentScreen (Null or <<screen>>)
    result,         \* parser: value returned by the last parse call
    dirty,          \* parser: the fields still held an earlier call's screens
                    \*         when the current / last call began
    hpc,            \* handler: position of figma.ui.onmessage / render
    msg,            \* handler: the message being handled, [type, text]
    err,            \* handler: Null, or <<the value thrown into the catch>>
    flow,           \* handler: screens returned by parser.parse(msg.text)
    screenNodes,    \* render: Map name -> node id, as a sequence of <<name, id>>
    i,              \* render: first-pass loop index (1-based)
    si,             \* render: second-pass screen index (1-based)
    ti,             \* render: second-pass transition index (1-based)
    events,         \* canvas: nodes and connectors created by this render call
    notes           \* figma.notify calls made for the current message

pvars == <<pc, text, lines, idx, screens, currentScreen, result, dirty>>
hvars == <<hpc, msg, err, flow, screenNodes, i, si, ti, events, notes>>
vars  == <<variant, pvars, hvars>>

Variants == {"code_ts", "part_000"}

\* ------------------------------------------------------------------------
\* Bounds
\* ------------------------------------------------------------------------
\* lines of a text parsed by a fresh parser
MaxLines == 4

\* lines of a text parsed by a parser instance that is used again and again
MaxReuseLines == 2

\* lines of the text of a 'create-flow' message
MaxFlowLines == 4

\* ------------------------------------------------------------------------
\* JavaScript string primitives
\* ------------------------------------------------------------------------
Null == <<>>

Whitespace == {" ", "\t"}

StartsWith(s, p) == Len(s) >= Len(p) /\ SubSeq(s, 1, Len(p)) = p

EndsWith(s, p) == Len(s) >= Len(p) /\ SubSeq(s, Len(s) - Len(p) + 1, Len(s)) = p

\* s.slice(n) for n >= 0
SliceFrom(s, n) == SubSeq(s, n + 1, Len(s))

\* s.slice(1, -1)
SliceInner(s) == SubSeq(s, 2, Len(s) - 1)

\* positions at which p occurs in s
Occurrences(s, p) ==
    {k \in 1..(Len(s) + 1 - Len(p)) : SubSeq(s, k, k + Len(p) - 1) = p}

Includes(s, p) == Occurrences(s, p) # {}

MinOf(S) == CHOOSE k \in S : \A m \in S : k <= m

MaxOf(S) == CHOOSE k \in S : \A m \in S : k >= m

RECURSIVE TrimStart(_)
TrimStart(s) ==
    IF s # <<>> /\ Head(s) \in Whitespace THEN TrimStart(Tail(s)) ELSE s

RECURSIVE TrimEnd(_)
TrimEnd(s) ==
    IF s # <<>> /\ s[Len(s)] \in Whitespace
    THEN TrimEnd(SubSeq(s, 1, Len(s) - 1))
    ELSE s

Trim(s) == TrimEnd(TrimStart(s))

\* s.split(sep) for a non-empty separator
RECURSIVE Split(_, _)
Split(s, sep) ==
    IF ~Includes(s, sep)
    THEN <<s>>
    ELSE LET k == MinOf(Occurrences(s, sep))
         IN  <<SubSeq(s, 1, k - 1)>> \o Split(SliceFrom(s, k - 1 + Len(sep)), sep)

\* parts.join(sep)
RECURSIVE Join(_, _)
Join(parts, sep) ==
    IF parts = <<>> THEN <<>>
    ELSE IF Len(parts) = 1 THEN parts[1]
    ELSE parts[1] \o sep \o Join(Tail(parts), sep)

MapTrim(parts) == [k \in 1..Len(parts) |-> Trim(parts[k])]

\* text.split('\n').map((line) => line.trim())
SplitLines(t) == MapTrim(Split(t, <<"\n">>))

\* line.match(/={(.+)}=>(.+)/): Null, or <<group 1, group 2>>.
\* The match is the leftmost one; both groups are greedy, so group 1 runs to
\* the last "}=>" that still leaves a character for group 2.
RegexCondition(line) ==
    LET open    == <<"=", "{">>
        close   == <<"}", "=", ">">>
        matches == {m \in Occurrences(line, open) \X Occurrences(line, close) :
                        /\ m[2] >= m[1] + 3
                        /\ m[2] + 3 <= Len(line)}
    IN  IF matches = {} THEN Null
        ELSE LET a == MinOf({m[1] : m \in matches})
                 b == MaxOf({m[2] : m \in {n \in matches : n[1] = a}})
             IN  <<SubSeq(line, a + 2, b - 1), SliceFrom(line, b + 2)>>


\* ------------------------------------------------------------------------
\* ScreenFlowParser: records
\* ------------------------------------------------------------------------
\* code.ts: { type, name, requirements: {}, components: [], transitions: [] }
\* An absent requirement is Null, a present one is <<description>>.
NewScreenCode(name) ==
    [type |-> "screen", name |-> name,
     requirements |-> [performance |-> Null, security |-> Null,
                       availability |-> Null, usability |-> Null],
     components |-> <<>>, transitions |-> <<>>]

\* part_000: { type, name, components: [], transitions: [], sections: [] }
NewScreenPart(name) ==
    [type |-> "screen", name |-> name,
     components |-> <<>>, transitions |-> <<>>, sections |-> <<>>]

NewScreen(v, name) ==
    IF v = "code_ts" THEN NewScreenCode(name) ELSE NewScreenPart(name)

\* the fields of a new ScreenFlowParser()
NewParser == [screens |-> <<>>, cur |-> Null]

\* a parse that forgets to reset the fields
ResetParserKeep(st) == st

\* this.screens = []; this.currentScreen = null;
ResetParser(st) == [screens |-> <<>>, cur |-> Null]

\* unshift instead of push
PushScreenFront(scr, cs) == <<cs>> \o scr

\* this.screens.push(this.currentScreen)
PushScreen(scr, cs) == Append(scr, cs)

\* if (this.currentScreen) this.screens.push(this.currentScreen)
CommitCurrent(st) ==
    IF st.cur # Null THEN PushScreen(st.screens, st.cur[1]) ELSE st.screens

\* ------------------------------------------------------------------------
\* ScreenFlowParser.parse: the branches of the line loop
\* ------------------------------------------------------------------------
IsHeader(line) == StartsWith(line, <<"[">>) /\ EndsWith(line, <<"]">>)

\* name: line.slice(1, -1)
HeaderName(line) == SliceInner(line)

HeaderBranch(v, st, line) ==
    [screens |-> CommitCurrent(st), cur |-> <<NewScreen(v, HeaderName(line))>>]

\* code.ts, the '//' branch
CodeRequirement(cs, line) ==
    LET parts       == Split(SliceFrom(line, 2), <<":">>)
        type        == Trim(parts[1])
        description == Trim(Join(Tail(parts), <<":">>))
    IN  CASE type = <<"P">> -> [cs EXCEPT !.requirements.performance  = <<description>>]
          [] type = <<"S">> -> [cs EXCEPT !.requirements.security     = <<description>>]
          [] type = <<"A">> -> [cs EXCEPT !.requirements.availability = <<description>>]
          [] type = <<"U">> -> [cs EXCEPT !.requirements.usability    = <<description>>]
          [] OTHER          -> cs

IsCodeComponentLine(line) ==
    \/ StartsWith(line, <<"T", " ">>)
    \/ StartsWith(line, <<"E", " ">>)
    \/ StartsWith(line, <<"B", " ">>)
    \/ StartsWith(line, <<"A", " ">>)

CodeComponentType(c) ==
    IF c = "T" THEN "text" ELSE IF c = "E" THEN "field"
    ELSE IF c = "B" THEN "button" ELSE "action"

CodeComponent(cs, line) ==
    [cs EXCEPT !.components =
        Append(@, [type |-> CodeComponentType(line[1]), name |-> SliceFrom(line, 2)])]

\* code.ts, the '=>' branch
CodeUnconditional(cs, line) ==
    [cs EXCEPT !.transitions = Append(@, [to |-> Trim(SliceFrom(line, 2))])]

\* a conditional transition that also declares a component
CodeConditionalWithComponent(cs, line) ==
    LET match == RegexCondition(line)
    IN  IF match = Null THEN cs
        ELSE [cs EXCEPT !.transitions =
                 Append(@, [to |-> Trim(match[2]), condition |-> Trim(match[1])]),
                        !.components =
                 Append(@, [type |-> "action", name |-> Trim(match[1])])]

\* code.ts, the '={' branch
CodeConditional(cs, line) ==
    LET match == RegexCondition(line)
    IN  IF match = Null THEN cs
        ELSE [cs EXCEPT !.transitions =
                 Append(@, [to |-> Trim(match[2]), condition |-> Trim(match[1])])]

\* part_000, the '--' branch
PartSection(cs, line) == [cs EXCEPT !.sections = Append(@, line)]

\* an arrow line treated as a transition only
PartArrowTransitionOnly(cs, line) ==
    LET parts      == MapTrim(Split(line, <<"=", ">">>))
        actionName == SliceFrom(parts[1], 2)
    IN  [cs EXCEPT !.transitions = Append(@, [from |-> actionName, to |-> parts[2]])]

\* part_000, the includes('=>') branch
PartArrow(cs, line) ==
    LET parts      == MapTrim(Split(line, <<"=", ">">>))
        action     == parts[1]
        target     == parts[2]
        actionName == SliceFrom(action, 2)
    IN  [cs EXCEPT !.transitions = Append(@, [from |-> actionName, to |-> target]),
                   !.components  = Append(@, [type |-> "action", name |-> actionName])]

IsPartComponentLine(line) ==
    \/ StartsWith(line, <<"T", " ">>)
    \/ StartsWith(line, <<"B", " ">>)
    \/ StartsWith(line, <<"A", " ">>)
    \/ StartsWith(line, <<"O", " ">>)

PartComponentType(c) ==
    IF c = "T" THEN "text" ELSE IF c = "B" THEN "button"
    ELSE IF c = "A" THEN "action" ELSE "other"

PartComponent(cs, line) ==
    [cs EXCEPT !.components =
        Append(@, [type |-> PartComponentType(line[1]), name |-> SliceFrom(line, 2)])]

\* apply f to the open screen, if there is one
OnCurrent(st, new) == [st EXCEPT !.cur = <<new>>]

\* one iteration of the loop of code.ts
ProcessLineCode(st, line) ==
    IF line = <<>> THEN st
    ELSE IF IsHeader(line) THEN HeaderBranch("code_ts", st, line)
    ELSE IF StartsWith(line, <<"/", "/">>)
         THEN IF st.cur # Null THEN OnCurrent(st, CodeRequirement(st.cur[1], line)) ELSE st
    ELSE IF IsCodeComponentLine(line)
         THEN IF st.cur # Null THEN OnCurrent(st, CodeComponent(st.cur[1], line)) ELSE st
    ELSE IF StartsWith(line, <<"=", ">">>)
         THEN IF st.cur # Null THEN OnCurrent(st, CodeUnconditional(st.cur[1], line)) ELSE st
    ELSE IF StartsWith(line, <<"=", "{">>)
         THEN IF st.cur # Null THEN OnCurrent(st, CodeConditional(st.cur[1], line)) ELSE st
    ELSE st

\* one iteration of the loop of part_000
ProcessLinePart(st, line) ==
    IF line = <<>> THEN st
    ELSE IF IsHeader(line) THEN HeaderBranch("part_000", st, line)
    ELSE IF line = <<"-", "-">>
         THEN IF st.cur # Null THEN OnCurrent(st, PartSection(st.cur[1], line)) ELSE st
    ELSE IF Includes(line, <<"=", ">">>)
         THEN IF st.cur # Null THEN OnCurrent(st, PartArrow(st.cur[1], line)) ELSE st
    ELSE IF IsPartComponentLine(line)
         THEN IF st.cur # Null THEN OnCurrent(st, PartComponent(st.cur[1], line)) ELSE st
    ELSE st

ProcessLine(v, st, line) ==
    IF v = "code_ts" THEN ProcessLineCode(st, line) ELSE ProcessLinePart(st, line)

\* the whole loop over lines[k..]
RECURSIVE ParseLoop(_, _, _, _)
ParseLoop(v, st, ls, k) ==
    IF k > Len(ls) THEN st ELSE ParseLoop(v, ProcessLine(v, st, ls[k]), ls, k + 1)

\* parse(text) called on a parser whose fields are st: the fields afterwards
\* (the returned array is the screens field)
ParseOn(v, st, t) ==
    LET done == ParseLoop(v, ResetParser(st), SplitLines(t), 1)
    IN  [screens |-> CommitCurrent(done), cur |-> done.cur]

\* new ScreenFlowParser().parse(text)
Parse(v, t) == ParseOn(v, NewParser, t).screens


\* ------------------------------------------------------------------------
\* Input texts of the parser
\* ------------------------------------------------------------------------
NL == <<"\n">>

Arrow == <<"=", ">">>

\* "A <label> => <target>"
ActionLine(label, target) == <<"A", " ">> \o label \o <<" ">> \o Arrow \o <<" ">> \o target

\* "={<condition>}=><target>"
CondLine(condition, target) == <<"=", "{">> \o condition \o <<"}">> \o Arrow \o target

NameA == <<"A">>
NameB == <<"B">>
NameX == <<"X">>
NameC == <<"c">>

L_A          == <<"[", "A", "]">>
L_B          == <<"[", "B", "]">>
L_EmptyName  == <<"[", "]">>
L_ActionXB   == ActionLine(NameX, NameB)
L_TextPadded == <<" ", "T", " ", "X", "\t">>
L_Other      == <<"O", " ", "X">>
L_Prose      == <<"x">>
L_ProseArrow == <<"x">> \o Arrow \o NameB
L_Section    == <<"-", "-">>
L_Blank      == <<>>
L_CondCB     == CondLine(NameC, NameB)
L_EmptyCond  == CondLine(<<>>, NameB)
L_ToB        == Arrow \o NameB
L_ReqP       == <<"/", "/", "P", ":", "f">>

RawLines(v) ==
    IF v = "code_ts"
    THEN {L_A, L_EmptyName, L_CondCB, L_EmptyCond, L_ToB, L_TextPadded,
          L_ReqP, L_Prose, L_Blank}
    ELSE {L_A, L_EmptyName, L_ActionXB, L_TextPadded, L_Other, L_ProseArrow,
          L_Prose, L_Section, L_Blank}

SeqsUpTo(S, n) == UNION {[1..k -> S] : k \in 1..n}

\* every text of 1..n raw lines joined by newlines
TextsOf(L, n) == {Join(ls, NL) : ls \in SeqsUpTo(L, n)}

TextsCode == TextsOf(RawLines("code_ts"), MaxLines)

TextsPart == TextsOf(RawLines("part_000"), MaxLines)

Texts(v) == IF v = "code_ts" THEN TextsCode ELSE TextsPart

\* ------------------------------------------------------------------------
\* One long-lived ScreenFlowParser instance, parse() stepped line by line
\* ------------------------------------------------------------------------
NoMessage == [type |-> "none", text |-> <<>>]

HandlerIdle ==
    /\ hpc = "idle" /\ msg = NoMessage /\ err = Null
    /\ flow = <<>> /\ screenNodes = <<>>
    /\ i = 1 /\ si = 1 /\ ti = 1 /\ events = <<>> /\ notes = <<>>

InitParser ==
    /\ variant \in Variants
    /\ pc = "idle" /\ text = <<>> /\ lines = <<>> /\ idx = 1
    /\ screens = NewParser.screens /\ currentScreen = NewParser.cur
    /\ result = <<>> /\ dirty = FALSE
    /\ HandlerIdle

Fields == [screens |-> screens, cur |-> currentScreen]

\* parse(text): lines 27-30 of code.ts, 20-23 of part_000
ParseCall(t) ==
    /\ pc = "idle"
    /\ LET st == ResetParser(Fields)
       IN  /\ screens' = st.screens
           /\ currentScreen' = st.cur
    /\ dirty' = (Fields # NewParser)
    /\ text' = t
    /\ lines' = SplitLines(t)
    /\ idx' = 1
    /\ result' = <<>>
    /\ pc' = "loop"
    /\ UNCHANGED <<variant, hvars>>

\* one iteration of for (const line of lines)
ParseLineStep ==
    /\ pc = "loop"
    /\ idx <= Len(lines)
    /\ LET st == ProcessLine(variant, Fields, lines[idx])
       IN  /\ screens' = st.screens
           /\ currentScreen' = st.cur
    /\ idx' = idx + 1
    /\ UNCHANGED <<variant, pc, text, lines, result, dirty, hvars>>

\* after the loop: commit the open screen and return this.screens
ParseReturn ==
    /\ pc = "loop"
    /\ idx > Len(lines)
    /\ screens' = CommitCurrent(Fields)
    /\ result' = screens'
    /\ pc' = "idle"
    /\ UNCHANGED <<variant, text, lines, idx, currentScreen, dirty, hvars>>

\* parse() has not been called on the instance (split never returns [])
NeverCalled == lines = <<>>

\* new ScreenFlowParser().parse(t), as the message handler uses the class
NextParser ==
    \/ NeverCalled /\ pc = "idle" /\ \E t \in Texts(variant) : ParseCall(t)
    \/ ParseLineStep
    \/ ParseReturn

SpecParser == InitParser /\ [][NextParser]_vars

ReuseTextsCode == TextsOf(RawLines("code_ts"), MaxReuseLines)

ReuseTextsPart == TextsOf(RawLines("part_000"), MaxReuseLines)

ReuseTexts(v) == IF v = "code_ts" THEN ReuseTextsCode ELSE ReuseTextsPart

\* one instance, parse() called any number of times
NextReuse ==
    \/ pc = "idle" /\ \E t \in ReuseTexts(variant) : ParseCall(t)
    \/ ParseLineStep
    \/ ParseReturn

SpecReuse == InitParser /\ [][NextReuse]_vars


\* ------------------------------------------------------------------------
\* Properties of the parser
\* ------------------------------------------------------------------------
\* names a line form is instantiated with: non-empty, no blanks, no arrow
FormNames == {NameA, NameB, NameX, NameC}

\* ParseLineStep is reading lines[idx] while a screen is open
ReadingWithOpenScreen ==
    /\ pc = "loop" /\ idx <= Len(lines) /\ currentScreen # Null
    /\ pc' = "loop" /\ idx' = idx + 1

\* C1: in part_000, a line "A <label> => <target>" read while a screen is open
\* appends exactly the transition {from: label, to: target} and exactly the
\* component {action, label} to that screen, and changes nothing else.
C1_DualEffect ==
    [][(variant = "part_000" /\ ReadingWithOpenScreen) =>
        \A label \in FormNames, target \in FormNames :
            lines[idx] = ActionLine(label, target) =>
                /\ screens' = screens
                /\ currentScreen' =
                     <<[currentScreen[1] EXCEPT
                          !.transitions = Append(@, [from |-> label, to |-> target]),
                          !.components  = Append(@, [type |-> "action", name |-> label])]>>
      ]_vars

\* "[A]\nA X => B\n" was parsed into one screen A, one component, one transition
C1_Witness ==
    /\ variant = "part_000" /\ pc = "idle"
    /\ text = Join(<<L_A, L_ActionXB, L_Blank>>, NL)
    /\ result = <<[type |-> "screen", name |-> NameA,
                   components  |-> <<[type |-> "action", name |-> NameX]>>,
                   transitions |-> <<[from |-> NameX, to |-> NameB]>>,
                   sections    |-> <<>>]>>

\* C2: in code.ts, a line "={<condition>}=><target>" read while a screen is
\* open appends exactly the transition {condition, to: target} and leaves the
\* components (and everything else) of the screen unchanged.
C2_ConditionalTransition ==
    [][(variant = "code_ts" /\ ReadingWithOpenScreen) =>
        \A condition \in FormNames, target \in FormNames :
            lines[idx] = CondLine(condition, target) =>
                /\ screens' = screens
                /\ currentScreen' =
                     <<[currentScreen[1] EXCEPT
                          !.transitions =
                              Append(@, [to |-> target, condition |-> condition])]>>
      ]_vars

C2_Witness ==
    /\ variant = "code_ts" /\ pc = "idle"
    /\ text = Join(<<L_A, L_CondCB>>, NL)
    /\ result = <<[NewScreenCode(NameA) EXCEPT
                     !.transitions = <<[to |-> NameB, condition |-> NameC]>>]>>

\* positions of the header lines, and the n-th of them in document order
HeaderPositions(ls) ==
    {k \in 1..Len(ls) : ls[k] # <<>> /\ ls[k][1] = "[" /\ ls[k][Len(ls[k])] = "]"}

NthHeader(ls, n) ==
    CHOOSE k \in HeaderPositions(ls) :
        Cardinality({q \in HeaderPositions(ls) : q <= k}) = n

\* last line of the body of the n-th screen
BodyEnd(ls, n) ==
    IF n < Cardinality(HeaderPositions(ls)) THEN NthHeader(ls, n + 1) - 1 ELSE Len(ls)

\* what one body line on its own adds to an empty screen
Alone(v, line) ==
    ProcessLine(v, [screens |-> <<>>, cur |-> <<NewScreen(v, <<>>)>>], line).cur[1]

\* components / transitions produced by lines[from..to], in line order
RECURSIVE ComponentsInOrder(_, _, _, _)
ComponentsInOrder(v, ls, from, to) ==
    IF from > to THEN <<>>
    ELSE Alone(v, ls[from]).components \o ComponentsInOrder(v, ls, from + 1, to)

RECURSIVE TransitionsInOrder(_, _, _, _)
TransitionsInOrder(v, ls, from, to) ==
    IF from > to THEN <<>>
    ELSE Alone(v, ls[from]).transitions \o TransitionsInOrder(v, ls, from + 1, to)

\* C3: parse returns one screen per header line; the n-th header line in
\* document order produces the n-th screen; within a screen the components
\* and the transitions are in the order of the lines that produced them.
C3_OrderPreserved ==
    pc = "idle" =>
        /\ Len(result) = Cardinality(HeaderPositions(lines))
        /\ \A n \in 1..Len(result) :
             LET h == NthHeader(lines, n)
             IN  /\ result[n].name = SubSeq(lines[h], 2, Len(lines[h]) - 1)
                 /\ result[n].components =
                        ComponentsInOrder(variant, lines, h + 1, BodyEnd(lines, n))
                 /\ result[n].transitions =
                        TransitionsInOrder(variant, lines, h + 1, BodyEnd(lines, n))

\* two screens in header order, the first one with a component and a transition
C3_Witness ==
    /\ variant = "part_000" /\ pc = "idle"
    /\ lines = <<L_A, <<"T", " ", "X">>, L_ActionXB, L_EmptyName>>
    /\ Len(result) = 2
    /\ result[1].name = NameA /\ result[2].name = <<>>
    /\ result[1].components = <<[type |-> "text", name |-> NameX],
                                [type |-> "action", name |-> NameX]>>
    /\ result[2].components = <<>>

\* a line that matches no pattern of the classification table
Unrecognized(line) ==
    /\ ~(StartsWith(line, <<"[">>) /\ EndsWith(line, <<"]">>))
    /\ line # <<"-", "-">>
    /\ ~(StartsWith(line, <<"A", " ">>) /\ Includes(line, Arrow))
    /\ ~StartsWith(line, <<"=", "{">>)
    /\ ~StartsWith(line, Arrow)
    /\ \A c \in {"T", "B", "A", "O", "E"} : ~StartsWith(line, <<c, " ">>)
    /\ ~StartsWith(line, <<"/", "/">>)

Recognized(line) == ~Unrecognized(line)

\* C4: a line that matches no pattern of the table changes nothing, and the
\* other lines are parsed exactly as if it were absent (both variants).
C4_UnrecognizedIgnored ==
    (pc = "idle" /\ ~NeverCalled) =>
        result = CommitCurrent(ParseLoop(variant, NewParser,
                                         SelectSeq(lines, Recognized), 1))

\* C9: on one instance, whatever was parsed before, parse(t) returns what a
\* fresh instance returns for t.
C9_ParseResetsState ==
    (pc = "idle" /\ ~NeverCalled) => result = Parse(variant, text)

\* a call made on an instance that still held screens returned the empty graph
C9_Witness ==
    /\ pc = "idle" /\ dirty
    /\ text = L_Prose
    /\ result = <<>>

\* C10: every screen returned by parse has a non-empty name.
C10_NamesNonEmpty ==
    pc = "idle" => \A n \in 1..Len(result) : result[n].name # <<>>


\* ------------------------------------------------------------------------
\* ScreenFlowRenderer and figma.ui.onmessage
\* ------------------------------------------------------------------------
L_CondCA == CondLine(NameC, NameA)
L_ToC    == Arrow \o <<"C">>
L_ActionXA == ActionLine(NameX, NameA)
L_ActionXC == ActionLine(NameX, <<"C">>)

\* lines of the texts sent with 'create-flow'; no line declares a screen C
FlowLines(v) ==
    IF v = "code_ts"
    THEN {L_A, L_B, L_ToB, L_CondCA, L_ToC}
    ELSE {L_A, L_B, L_ActionXB, L_ActionXA, L_ActionXC}

FlowTextsCode == TextsOf(FlowLines("code_ts"), MaxFlowLines)

FlowTextsPart == TextsOf(FlowLines("part_000"), MaxFlowLines)

FlowTexts(v) == IF v = "code_ts" THEN FlowTextsCode ELSE FlowTextsPart

\* messages the UI posts
CreateFlowMessages(v) == {[type |-> "create-flow", text |-> t] : t \in FlowTexts(v)}

OtherMessages == {[type |-> "cancel", text |-> <<>>]}

\* values a rejected loadFontAsync hands to the catch: an Error with a message,
\* an Error with the empty message, a value with no message property
FontErrors ==
    {[source |-> "loadFontAsync", message |-> <<"font unavailable">>],
     [source |-> "loadFontAsync", message |-> <<"">>],
     [source |-> "loadFontAsync", message |-> Null]}

\* reading .id of an undefined node
TypeError == [source |-> "TypeError", message |-> <<"cannot read properties of undefined">>]

\* JavaScript truthiness of an optional string
Truthy(m) == m # Null /\ m[1] # ""

\* Map.prototype.get: Null (undefined) or <<value>>
MapGet(m, key) ==
    LET hits == {k \in 1..Len(m) : m[k][1] = key}
    IN  IF hits = {} THEN Null ELSE <<m[MinOf(hits)][2]>>

\* Map.prototype.set: an existing key keeps its place and takes the new value
MapSet(m, key, value) ==
    IF MapGet(m, key) = Null
    THEN Append(m, <<key, value>>)
    ELSE [k \in 1..Len(m) |-> IF m[k][1] = key THEN <<key, value>> ELSE m[k]]

\* a first pass that stops one screen short: i < screens.length - 1
FirstPassDoneEarly(k, scr) == k >= Len(scr)

\* the first loop ends: i < screens.length is false
FirstPassDone(k, scr) == k > Len(scr)

\* a transition whose target node is looked up but never tested
SkipTransitionNever(targetNode) == FALSE

\* if (!targetNode) continue
SkipTransition(targetNode) == targetNode = Null

\* the label awaited after a connector: code.ts only if (transition.condition)
NeedsLabel(v, tr) ==
    IF v = "code_ts"
    THEN "condition" \in DOMAIN tr /\ tr.condition # <<>>
    ELSE TRUE

SuccessNote == [text |-> <<"Screen flow generated successfully!">>, error |-> FALSE]

\* an error text that drops the fallback
ErrorTextNoFallback(e) == IF e.message = Null THEN <<>> ELSE e.message

\* error.message || 'Unknown error'
ErrorText(e) == IF Truthy(e.message) THEN e.message ELSE <<"Unknown error">>

ErrorNote(e) ==
    [text |-> <<"Error generating screen flow: ">> \o ErrorText(e), error |-> TRUE]

Init ==
    /\ variant \in Variants
    /\ pc = "idle" /\ text = <<>> /\ lines = <<>> /\ idx = 1
    /\ screens = <<>> /\ currentScreen = Null /\ result = <<>> /\ dirty = FALSE
    /\ HandlerIdle

\* a message of another type: the handler returns at once
OnOtherMessage(m) ==
    /\ hpc = "idle"
    /\ m.type # "create-flow"
    /\ msg' = m
    /\ hpc' = "done"
    /\ UNCHANGED <<variant, pvars, err, flow, screenNodes, i, si, ti, events, notes>>

\* 'create-flow': parse synchronously, enter render, await the first font load
OnCreateFlow(m) ==
    /\ hpc = "idle"
    /\ m.type = "create-flow"
    /\ msg' = m
    /\ flow' = Parse(variant, m.text)
    /\ hpc' = "render_font"
    /\ UNCHANGED <<variant, pvars, err, screenNodes, i, si, ti, events, notes>>

\* the font of render() is loaded: new Map(), first pass begins
RenderFontLoaded ==
    /\ hpc = "render_font"
    /\ screenNodes' = <<>>
    /\ i' = 1
    /\ hpc' = "pass1"
    /\ UNCHANGED <<variant, pvars, msg, err, flow, si, ti, events, notes>>

\* createScreenNode(screens[i]) up to its await: the node is on the canvas
CreateScreenNode ==
    /\ hpc = "pass1"
    /\ ~FirstPassDone(i, flow)
    /\ events' = Append(events, [kind |-> "node", id |-> i, screen |-> i])
    /\ hpc' = "node_font"
    /\ UNCHANGED <<variant, pvars, msg, err, flow, screenNodes, i, si, ti, notes>>

\* createScreenNode resumes and returns; screenNodes.set(screen.name, node)
RegisterScreenNode ==
    /\ hpc = "node_font"
    /\ screenNodes' = MapSet(screenNodes, flow[i].name, i)
    /\ i' = i + 1
    /\ hpc' = "pass1"
    /\ UNCHANGED <<variant, pvars, msg, err, flow, si, ti, events, notes>>

\* the first loop is over: the second pass begins
BeginSecondPass ==
    /\ hpc = "pass1"
    /\ FirstPassDone(i, flow)
    /\ si' = 1 /\ ti' = 1
    /\ hpc' = "pass2"
    /\ UNCHANGED <<variant, pvars, msg, err, flow, screenNodes, i, events, notes>>

\* for (const screen of screens): no source node, or its transitions are done
NextScreen ==
    /\ hpc = "pass2"
    /\ si <= Len(flow)
    /\ \/ MapGet(screenNodes, flow[si].name) = Null
       \/ ti > Len(flow[si].transitions)
    /\ si' = si + 1 /\ ti' = 1
    /\ UNCHANGED <<variant, pvars, hpc, msg, err, flow, screenNodes, i, events, notes>>

Transition == flow[si].transitions[ti]

AtTransition ==
    /\ hpc = "pass2"
    /\ si <= Len(flow)
    /\ MapGet(screenNodes, flow[si].name) # Null
    /\ ti <= Len(flow[si].transitions)

\* if (!targetNode) continue
SkipUnresolved ==
    /\ AtTransition
    /\ SkipTransition(MapGet(screenNodes, Transition.to))
    /\ ti' = ti + 1
    /\ UNCHANGED <<variant, pvars, hpc, msg, err, flow, screenNodes, i, si, events, notes>>

Connector(source, target) ==
    [kind |-> "connector", start |-> source[1], end |-> target[1],
     screen |-> si, transition |-> ti]

\* createConnector between the two nodes; then the label, if any, awaits a
\* font. Reading targetNode.id of an undefined node throws into the catch of
\* the handler.
Connect ==
    /\ AtTransition
    /\ ~SkipTransition(MapGet(screenNodes, Transition.to))
    /\ LET source == MapGet(screenNodes, flow[si].name)
           target == MapGet(screenNodes, Transition.to)
       IN  IF target = Null
           THEN /\ events' = Append(events, [kind |-> "connector", start |-> source[1],
                                             end |-> 0, screen |-> si, transition |-> ti])
                /\ err' = <<TypeError>>
                /\ notes' = Append(notes, ErrorNote(TypeError))
                /\ hpc' = "done"
                /\ ti' = ti
           ELSE /\ UNCHANGED <<err, notes>>
                /\ IF NeedsLabel(variant, Transition)
                   THEN /\ events' = events \o <<Connector(source, target),
                                [kind |-> "label", screen |-> si, transition |-> ti]>>
                        /\ hpc' = "label_font"
                        /\ ti' = ti
                   ELSE /\ events' = Append(events, Connector(source, target))
                        /\ hpc' = hpc
                        /\ ti' = ti + 1
    /\ UNCHANGED <<variant, pvars, msg, flow, screenNodes, i, si>>

\* the label's font is loaded: its characters are set, the loop goes on
LabelFontLoaded ==
    /\ hpc = "label_font"
    /\ ti' = ti + 1
    /\ hpc' = "pass2"
    /\ UNCHANGED <<variant, pvars, msg, err, flow, screenNodes, i, si, events, notes>>

\* render returned: figma.notify('Screen flow generated successfully!')
NotifySuccess ==
    /\ hpc = "pass2"
    /\ si > Len(flow)
    /\ notes' = Append(notes, SuccessNote)
    /\ hpc' = "done"
    /\ UNCHANGED <<variant, pvars, msg, err, flow, screenNodes, i, si, ti, events>>

\* an awaited loadFontAsync rejects: render rethrows, the handler's catch notifies
FontRejected(e) ==
    /\ hpc \in {"render_font", "node_font", "label_font"}
    /\ err' = <<e>>
    /\ notes' = Append(notes, ErrorNote(e))
    /\ hpc' = "done"
    /\ UNCHANGED <<variant, pvars, msg, flow, screenNodes, i, si, ti, events>>

\* the handler's promise has settled; the plugin waits for the next message
HandlerReturn ==
    /\ hpc = "done"
    /\ hpc' = "idle" /\ msg' = NoMessage /\ err' = Null
    /\ flow' = <<>> /\ screenNodes' = <<>>
    /\ i' = 1 /\ si' = 1 /\ ti' = 1 /\ events' = <<>> /\ notes' = <<>>
    /\ UNCHANGED <<variant, pvars>>

Next ==
    \/ hpc = "idle" /\ \E m \in OtherMessages : OnOtherMessage(m)
    \/ hpc = "idle" /\ \E m \in CreateFlowMessages(variant) : OnCreateFlow(m)
    \/ RenderFontLoaded
    \/ CreateScreenNode
    \/ RegisterScreenNode
    \/ BeginSecondPass
    \/ NextScreen
    \/ SkipUnresolved
    \/ Connect
    \/ LabelFontLoaded
    \/ NotifySuccess
    \/ \E e \in FontErrors : FontRejected(e)
    \/ HandlerReturn

Spec == Init /\ [][Next]_vars


\* ------------------------------------------------------------------------
\* Properties of render and of the message handler
\* ------------------------------------------------------------------------
HandlingCreateFlow == msg.type = "create-flow"

\* C5: within one render call every screen has its node created and
\* registered in screenNodes before the first connector is created, and no
\* node is created after a connector.
C5_TwoPassOrdering ==
    \A k \in 1..Len(events) :
        events[k].kind = "connector" =>
            /\ \A s \in 1..Len(flow) :
                 /\ \E j \in 1..(k - 1) :
                        events[j].kind = "node" /\ events[j].screen = s
                 /\ MapGet(screenNodes, flow[s].name) # Null
            /\ \A j \in (k + 1)..Len(events) : events[j].kind # "node"

\* a render of two screens that drew a connector and completed
C5_Witness ==
    /\ hpc = "done" /\ err = Null
    /\ Len(flow) = 2
    /\ \E k \in 1..Len(events) : events[k].kind = "connector"
    /\ \E k \in 1..Len(events) : events[k].kind = "node" /\ events[k].screen = 2

\* the target names a screen of the graph
Resolves(scr, name) == \E k \in 1..Len(scr) : scr[k].name = name

\* <<screen index, transition index>> of every transition whose target
\* names a screen, in declaration order, from transition t of screen s on
RECURSIVE ResolvedFrom(_, _, _)
ResolvedFrom(scr, s, t) ==
    IF s > Len(scr) THEN <<>>
    ELSE IF t > Len(scr[s].transitions) THEN ResolvedFrom(scr, s + 1, 1)
    ELSE (IF Resolves(scr, scr[s].transitions[t].to) THEN <<<<s, t>>>> ELSE <<>>)
             \o ResolvedFrom(scr, s, t + 1)

IsConnector(e) == e.kind = "connector"

\* the transitions connectors were created for, in creation order
Drawn(ev) ==
    LET cs == SelectSeq(ev, IsConnector)
    IN  [k \in 1..Len(cs) |-> <<cs[k].screen, cs[k].transition>>]

IsPrefix(a, b) == Len(a) <= Len(b) /\ SubSeq(b, 1, Len(a)) = a

\* C6: render never fails on an unresolved target (the only failures are
\* rejected font loads); it creates one connector for each transition whose
\* target names a screen, declared earlier or later, and none for the others.
C6_UnresolvedTolerated ==
    HandlingCreateFlow =>
        /\ IsPrefix(Drawn(events), ResolvedFrom(flow, 1, 1))
        /\ hpc = "done" =>
             /\ err # Null => err[1].source = "loadFontAsync"
             /\ err = Null => Drawn(events) = ResolvedFrom(flow, 1, 1)

\* a completed render of a graph with an unresolved target and a target
\* declared after the transition
C6_Witness ==
    /\ hpc = "done" /\ err = Null
    /\ \E s \in 1..Len(flow) : \E t \in 1..Len(flow[s].transitions) :
           ~Resolves(flow, flow[s].transitions[t].to)
    /\ \E s \in 1..Len(flow) : \E t \in 1..Len(flow[s].transitions) :
           \E k \in (s + 1)..Len(flow) : flow[k].name = flow[s].transitions[t].to
    /\ Len(Drawn(events)) = 1

\* index of the first screen of that name (the node of screen k has id k)
FirstNamed(scr, name) == MinOf({k \in 1..Len(scr) : scr[k].name = name})

\* C7: with duplicate screen names every lookup of the connection pass
\* yields the node of the FIRST screen of that name.
C7_FirstOccurrenceWins ==
    \A k \in 1..Len(events) :
        events[k].kind = "connector" =>
            LET e == events[k]
            IN  /\ e.start = FirstNamed(flow, flow[e.screen].name)
                /\ e.end = FirstNamed(flow, flow[e.screen].transitions[e.transition].to)

ErrorPrefix == <<"Error generating screen flow: ">>

\* the whole second pass has run
RenderCompleted ==
    /\ si > Len(flow)
    /\ \A s \in 1..Len(flow) :
           \E k \in 1..Len(events) : events[k].kind = "node" /\ events[k].screen = s

\* C8: a 'create-flow' message produces no notification before the handler
\* ends and exactly one when it ends: the success text only after render
\* completed, otherwise the error text with the failure's message, or with
\* 'Unknown error' when the failure has no message.
C8_OneNotification ==
    /\ ~HandlingCreateFlow => notes = <<>>
    /\ HandlingCreateFlow =>
        /\ hpc # "done" => notes = <<>> /\ err = Null
        /\ hpc = "done" =>
             /\ Len(notes) = 1
             /\ err = Null =>
                  notes[1] = SuccessNote /\ RenderCompleted
             /\ err # Null =>
                  /\ notes[1].error
                  /\ notes[1].text =
                       ErrorPrefix \o (IF err[1].message \in {Null, <<"">>}
                                       THEN <<"Unknown error">>
                                       ELSE err[1].message)

\* a font load rejected with a value that has no message, after a node was created
C8_Witness ==
    /\ hpc = "done" /\ HandlingCreateFlow
    /\ events # <<>>
    /\ err # Null /\ err[1].message = Null
    /\ notes = <<[text |-> <<"Error generating screen flow: ", "Unknown error">>,
                  error |-> TRUE]>>

=============================================================================
